---- MODULE Spec2Model ----
(***************************************************************************)
(* Marketplace order fulfilment of waldur_mastermind: the Order and        *)
(* OrderItem state machines (marketplace/models.py), order approval and    *)
(* the process_order task (marketplace/tasks.py), the dispatch boundary    *)
(* utils.process_order_item (marketplace/utils.py) and the Resource        *)
(* lifecycle state machine (marketplace/models.py); the cost estimate of   *)
(* order items, the limit validations, the monthly usage rollup, the       *)
(* invoice item update (invoices/serializers.py), move_resource, the       *)
(* expiry sweep, the stale resource notification, create_local_resource    *)
(* and the redelivery of process_order.                                    *)
(***************************************************************************)
EXTENDS Integers, Sequences, FiniteSets, TLC

\* ---------------------------------------------------------------- bounds
MaxItems == 2      \* order items of the order, in 'created' order
MaxTasks == 1      \* process_order executions that may run at the same time
MaxResources == 3  \* marketplace resources of the lifecycle specification

Items == 1..MaxItems
Tasks == 1..MaxTasks
Resources == 1..MaxResources

None == "None"
TimezoneNow == "now"           \* value of timezone.now(), abstracted to its presence
Users == {"staff"}

\* ------------------------------------------------- Order.States (models.py)
REQUESTED_FOR_APPROVAL == 1
ORDER_EXECUTING == 2
ORDER_DONE == 3
ORDER_TERMINATED == 4
ORDER_ERRED == 5
REJECTED == 6
OrderStates == 1..6

\* --------------------------------------------- OrderItem.States (models.py)
PENDING == 1
EXECUTING == 2
DONE == 3
ERRED == 4
TERMINATED == 5
TERMINATING == 6
ItemStates == 1..6

\* ------------------------------------- RequestTypeMixin.Types (models.py)
CREATE == 1
UPDATE == 2
TERMINATE == 3
RequestTypes == {CREATE, UPDATE, TERMINATE}

\* ------------------------------------------------------- offering types
REMOTE_PLUGIN_NAME == "Marketplace.Remote"
BasicType == "Support.OfferingDefault"   \* a plugin with all three processors
PartialType == "Script.CreateOnly"       \* a plugin that registers a create processor only
OfferingTypes == {REMOTE_PLUGIN_NAME, BasicType, PartialType}

\* django-fsm: @transition(field, source, target).  The call raises
\* TransitionNotAllowed and leaves the field alone when the current state is
\* not a source; otherwise the field becomes the target.
TransitionNotAllowed == "TransitionNotAllowed"
NoError == "NoError"

Transition(sources, target, cur) ==
    IF cur \in sources
    THEN [ok |-> TRUE, state |-> target]
    ELSE [ok |-> FALSE, state |-> cur]

\* ------------------------------------------------ Order transition methods
Order_approve(s) == Transition({REQUESTED_FOR_APPROVAL}, ORDER_EXECUTING, s)
Order_complete_any(s) == Transition(OrderStates, ORDER_DONE, s)   \* source='*'
Order_complete(s) == Transition({ORDER_EXECUTING}, ORDER_DONE, s)
Order_terminate(s) == Transition(OrderStates, ORDER_TERMINATED, s)
Order_reject(s) == Transition({REQUESTED_FOR_APPROVAL}, REJECTED, s)
Order_fail(s) == Transition(OrderStates, ORDER_ERRED, s)

\* -------------------------------------------- OrderItem transition methods
set_state_executing_from_done(s) == Transition({PENDING, ERRED, DONE}, EXECUTING, s)
set_state_terminating_any(s) == Transition(ItemStates, TERMINATING, s)   \* source='*'
set_state_executing(s) == Transition({PENDING, ERRED}, EXECUTING, s)
set_state_done(s) == Transition({EXECUTING}, DONE, s)
set_state_erred(s) == Transition(ItemStates, ERRED, s)
set_state_terminated(s) == Transition(ItemStates, TERMINATED, s)
set_state_terminating(s) == Transition({PENDING, EXECUTING}, TERMINATING, s)

VARIABLES
    order,        \* the committed Order row: state, approved_by, approved_at
    tx,           \* the open database transaction of an approval request
    queue,        \* process_order messages waiting for a worker
    task,         \* the process_order executions: position in the loop
    itemType,     \* OrderItem.type
    offType,      \* OrderItem.offering.type
    itemState,    \* OrderItem.state (committed)
    itemMsg,      \* OrderItem.error_message
    itemTb,       \* OrderItem.error_traceback
    raised,       \* exception that left the last operation, or NoError
    called,       \* item whose processor the last operation invoked, or 0
    resState      \* Resource.state

VARIABLES
    cart,         \* order.items as built by Order.add_item, in 'created' order
    total_cost    \* Order.total_cost (null until init_total_cost)

cartVars == <<cart, total_cost>>

VARIABLES
    usages,       \* ComponentUsage rows of one resource and component
    component,    \* the OfferingComponent: limit_period, limit_amount
    offering,     \* the Offering: plugin capability and its components
    lastCall      \* arguments of the last validation call, or NoCall

limitVars == <<usages, component, offering, lastCall>>

VARIABLES
    usageParent,  \* OfferingComponent.parent of the usage-reported component
    periods,      \* ResourcePlanPeriod rows joined with their plan component
    ccu,          \* CategoryComponentUsage rows of the scope
    worker        \* executions of calculate_usage_for_scope

rollupVars == <<usageParent, periods, ccu, worker>>

VARIABLES
    invoiceItem,  \* the InvoiceItem the update serializer is bound to
    placement,    \* the rows move_resource reads and rewrites
    endDate,      \* Resource.end_date
    robot,        \* whether the system_robot staff account exists
    submitted     \* resources the last sweep posted to the terminate view

invoiceVars == <<invoiceItem>>
moveVars == <<placement>>
sweepVars == <<endDate, robot, submitted>>
VARIABLES
    billing,      \* what notify_about_stale_resource reads: the feature flag,
                  \* the owners, the billable flags and the invoice items
    notified,     \* resources named in the mails of the last notification run
    ccuCustomer,  \* CategoryComponentUsage rows of the customer scope
    newResource,  \* the Resource create_local_resource saved, or NoResource
    quotas,       \* ComponentQuota rows of that resource
    adder         \* Order.add_item calls in progress

staleVars == <<billing, notified>>
quotaVars == <<newResource, quotas>>
lateVars == <<staleVars, ccuCustomer, quotaVars, adder>>
tailVars == <<invoiceVars, moveVars, sweepVars, lateVars>>

\* the tables outside order fulfilment and the resource lifecycle
extVars == <<cartVars, limitVars, rollupVars, tailVars>>

vars == <<order, tx, queue, task, itemType, offType, itemState, itemMsg,
          itemTb, raised, called, resState, extVars>>

orderVars == <<order, tx, queue, task, itemType, offType, itemState, itemMsg,
               itemTb, called>>

\* ------------------------------------------------ Resource.States (models.py)
RES_CREATING == 1
RES_OK == 2
RES_ERRED == 3
RES_UPDATING == 4
RES_TERMINATING == 5
RES_TERMINATED == 6
ResourceStates == 1..6

\* --------------------------------------------- Resource transition methods
Resource_set_state_ok_any(s) == Transition(ResourceStates, RES_OK, s)   \* source='*'
Resource_set_state_terminating_live(s) ==
    Transition(ResourceStates \ {RES_TERMINATED}, RES_TERMINATING, s)
Resource_set_state_ok(s) == Transition({RES_ERRED, RES_CREATING, RES_UPDATING}, RES_OK, s)
Resource_set_state_erred(s) == Transition(ResourceStates, RES_ERRED, s)
Resource_set_state_updating(s) == Transition(ResourceStates, RES_UPDATING, s)
Resource_set_state_terminating(s) == Transition(ResourceStates, RES_TERMINATING, s)
Resource_set_state_terminated(s) == Transition(ResourceStates, RES_TERMINATED, s)

\* ------------------------------------------------------ plugin registry
\* plugins.manager.get_processor(offering_type, name): the processor class a
\* plugin registered under that capability name, or None.
Registered ==
    {<<REMOTE_PLUGIN_NAME, "create_resource_processor">>,
     <<REMOTE_PLUGIN_NAME, "update_resource_processor">>,
     <<REMOTE_PLUGIN_NAME, "delete_resource_processor">>,
     <<BasicType, "create_resource_processor">>,
     <<BasicType, "update_resource_processor">>,
     <<BasicType, "delete_resource_processor">>,
     <<PartialType, "create_resource_processor">>}

get_processor(offering_type, name) ==
    IF <<offering_type, name>> \in Registered THEN name ELSE None

get_order_item_processor(item) ==
    CASE item.type = CREATE -> get_processor(item.offering_type, "create_resource_processor")
      [] item.type = UPDATE -> get_processor(item.offering_type, "update_resource_processor")
      [] item.type = TERMINATE -> get_processor(item.offering_type, "delete_resource_processor")
      [] OTHER -> None

\* ------------------------------------------------- processor behaviour
\* A processor either returns or raises an exception built from args.
ExceptionArgs == {<< >>, <<"quota exceeded">>}
Outcomes == {[kind |-> "return", args |-> << >>]}
            \cup {[kind |-> "raise", args |-> a] : a \in ExceptionArgs}

\* str(e) of a Python exception: '' without arguments, the argument itself
\* when there is one, the repr of the tuple otherwise.
StrOfException(args) ==
    IF Len(args) = 0 THEN ""
    ELSE IF Len(args) = 1 THEN args[1]
    ELSE "(...)"

\* traceback.format_exc() inside an except block always starts with this header
FormatExc(args) == "Traceback (most recent call last):"

ProcessorNotFoundMessage == "Skipping order item processing because processor is not found."

\* process_order_item without the return that ends the missing-processor
\* branch: the None processor is called and the TypeError is recorded
process_order_item_no_return(item, outcome) ==
    LET processor == get_order_item_processor(item)
    IN IF processor = None
       THEN [state |-> set_state_erred(item.state).state,
             error_message |-> "'NoneType' object is not callable",
             error_traceback |-> FormatExc(<< >>),
             invoked |-> FALSE,
             saved |-> {"state", "error_message", "error_traceback"}]
       ELSE IF outcome.kind = "raise"
       THEN [state |-> set_state_erred(item.state).state,
             error_message |-> StrOfException(outcome.args),
             error_traceback |-> FormatExc(outcome.args),
             invoked |-> TRUE,
             saved |-> {"state", "error_message", "error_traceback"}]
       ELSE [state |-> item.state,
             error_message |-> item.error_message,
             error_traceback |-> item.error_traceback,
             invoked |-> TRUE,
             saved |-> {}]

\* utils.process_order_item on the in-memory order item; saved is the
\* update_fields list of the save() it ends with.
process_order_item(item, outcome) ==
    LET processor == get_order_item_processor(item)
    IN IF processor = None
       THEN [state |-> set_state_erred(item.state).state,
             error_message |-> ProcessorNotFoundMessage,
             error_traceback |-> item.error_traceback,
             invoked |-> FALSE,
             saved |-> {"state", "error_message"}]
       ELSE IF outcome.kind = "raise"
       THEN [state |-> set_state_erred(item.state).state,
             error_message |-> StrOfException(outcome.args),
             error_traceback |-> FormatExc(outcome.args),
             invoked |-> TRUE,
             saved |-> {"state", "error_message", "error_traceback"}]
       ELSE [state |-> item.state,
             error_message |-> item.error_message,
             error_traceback |-> item.error_traceback,
             invoked |-> TRUE,
             saved |-> {}]

\* the in-memory OrderItem a worker holds: row i with the state it loaded
LoadedItem(i, state) ==
    [state |-> state, error_message |-> itemMsg[i], error_traceback |-> itemTb[i],
     type |-> itemType[i], offering_type |-> offType[i]]

\* order.items.all(): the queryset without the exclude
RECURSIVE ExcludeRemote_all(_)
ExcludeRemote_all(n) ==
    IF n = 0 THEN << >>
    ELSE Append(ExcludeRemote_all(n - 1), n)

\* order.items.exclude(offering__type=REMOTE_PLUGIN_NAME), ordered by 'created'
RECURSIVE ExcludeRemote(_)
ExcludeRemote(n) ==
    IF n = 0 THEN << >>
    ELSE IF offType[n] = REMOTE_PLUGIN_NAME THEN ExcludeRemote(n - 1)
    ELSE Append(ExcludeRemote(n - 1), n)

OrderItems == ExcludeRemote(MaxItems)

NoTx == [open |-> FALSE, row |-> [state |-> REQUESTED_FOR_APPROVAL, approved_by |-> None, approved_at |-> None], hooks |-> << >>]
IdleTask == [pc |-> "idle", pos |-> 1, snap |-> [i \in Items |-> PENDING]]

\* a nullable column: << >> is NULL, <<v>> holds v
Null == << >>
Some(v) == <<v>>
OrZero(c) == IF c = Null THEN 0 ELSE c[1]

ValidationError == "ValidationError"

\* a new order: no items, total_cost NULL
CartInit ==
    /\ cart = << >>
    /\ total_cost = Null

\* ---------------------------------------------------------------- time
DaysPerMonth == 2  \* instants told apart within one calendar month
MaxMonth == 1      \* calendar months 0..MaxMonth
Instants == 0..((MaxMonth + 1) * DaysPerMonth - 1)

\* core_utils.month_start(date)
month_start(date) == date - (date % DaysPerMonth)

\* OfferingComponent.LimitPeriods
MONTH == "month"
TOTAL == "total"

\* OfferingComponent.BillingTypes used by the validations
USAGE == "usage"
LIMIT == "limit"

MaxUsages == 2     \* ComponentUsage rows of the resource and component
UsageRows == 1..MaxUsages
NoCall == [fn |-> "none"]

\* no usage reported, a component without limits, an offering without
\* components
LimitIdle ==
    /\ usages = [u \in UsageRows |-> [date |-> 0, usage |-> 0]]
    /\ component = [limit_period |-> Null, limit_amount |-> Null]
    /\ offering = [can_update_limits |-> FALSE, max_value |-> Null, min_value |-> Null]
    /\ lastCall = NoCall

MaxPeriods == 1    \* ResourcePlanPeriod rows of the scope
PeriodRows == 1..MaxPeriods
MaxWorkers == 2    \* executions of the rollup that may overlap
Workers == 1..MaxWorkers
IdleWorker == [pc |-> "idle", reported_usage |-> {}, fixed_usage |-> {}, components |-> {}, current |-> None]

\* no plan periods that count, no rollup rows, no rollup running
RollupIdle ==
    /\ usageParent = None
    /\ periods = [r \in PeriodRows |-> [start |-> 0, end |-> Some(0), parent |-> None, amount |-> 0]]
    /\ ccu = << >>
    /\ worker = [w \in Workers |-> IdleWorker]

\* Projects a resource can be in; invoices are told apart by the customer
\* of the project and the month
OldProject == "old"
NewProject == "new"
OtherProject == "other"
MaxOrders == 2        \* orders holding an order item of the moved resource
MaxInvoiceItems == 2  \* invoice items of the moved resource
OrderIds == 1..MaxOrders
InvoiceItemIds == 1..MaxInvoiceItems
Months == 0..MaxMonth

\* no invoice item bound
InvoiceIdle ==
    invoiceItem = [resource |-> Null, plan_component_id |-> Null, quantity |-> 0, article_code |-> ""]

\* a resource with neither orders shared with other resources nor a scope
MoveIdle ==
    placement = [blocked |-> FALSE,
                 resource |-> OldProject,
                 scope |-> Null,
                 shared |-> [o \in OrderIds |-> FALSE],
                 orders |-> [o \in OrderIds |-> OldProject],
                 items |-> [i \in InvoiceItemIds |-> [project |-> OldProject, customer |-> OldProject, month |-> 0]],
                 invoices |-> [c \in {OldProject, NewProject} |-> [m \in Months |-> "pending"]]]

\* no resource with an end date
SweepIdle ==
    /\ endDate = [r \in Resources |-> Null]
    /\ robot = TRUE
    /\ submitted = {}

MaxAdders == 2     \* Order.add_item calls that may overlap
Adders == 1..MaxAdders
NoResource == [state |-> 0]
IdleAdder == [pc |-> "idle", type |-> CREATE]

\* notifications off and nothing invoiced, no customer rollup rows, no
\* resource created, no add_item in progress
LateIdle ==
    /\ billing = [enabled |-> FALSE, owners |-> FALSE,
                  billable |-> [r \in Resources |-> TRUE],
                  items |-> [i \in InvoiceItemIds |-> [resource |-> Null, price |-> 0, age |-> 0]]]
    /\ notified = {}
    /\ ccuCustomer = << >>
    /\ newResource = NoResource
    /\ quotas = {}
    /\ adder = [a \in Adders |-> IdleAdder]

TailIdle ==
    /\ InvoiceIdle
    /\ MoveIdle
    /\ SweepIdle
    /\ LateIdle

ExtInit ==
    /\ CartInit
    /\ LimitIdle
    /\ RollupIdle
    /\ TailIdle

\* the fulfilment tables of an order nobody has touched yet
UntouchedOrder ==
    /\ order = [state |-> REQUESTED_FOR_APPROVAL, approved_by |-> None, approved_at |-> None]
    /\ tx = NoTx
    /\ queue = << >>
    /\ task = [t \in Tasks |-> IdleTask]
    /\ itemType = [i \in Items |-> CREATE]
    /\ offType = [i \in Items |-> BasicType]
    /\ itemState = [i \in Items |-> PENDING]
    /\ itemMsg = [i \in Items |-> ""]
    /\ itemTb = [i \in Items |-> ""]
    /\ called = 0

\* and resources that are being created
Untouched ==
    /\ UntouchedOrder
    /\ resState = [r \in Resources |-> RES_CREATING]

Init ==
    /\ order = [state |-> REQUESTED_FOR_APPROVAL, approved_by |-> None, approved_at |-> None]
    /\ tx = NoTx
    /\ queue = << >>
    /\ task = [t \in Tasks |-> IdleTask]
    /\ \E ty \in RequestTypes : itemType = [i \in Items |-> ty]
    /\ offType \in [Items -> OfferingTypes]
    /\ itemState = [i \in Items |-> PENDING]
    /\ itemMsg = [i \in Items |-> ""]
    /\ itemTb = [i \in Items |-> ""]
    /\ raised = NoError
    /\ called = 0
    /\ resState = [r \in Resources |-> RES_CREATING]
    /\ ExtInit

\* ------------------------------------------------------------ approval
\* approve_order calling process_order.delay directly instead of handing it
\* to transaction.on_commit
approve_order_delay_at_once(user, atomic) ==
    /\ ~tx.open
    /\ LET r == Order_approve(order.state)
           row == [state |-> r.state, approved_by |-> user, approved_at |-> TimezoneNow]
       IN IF ~r.ok
          THEN /\ raised' = TransitionNotAllowed
               /\ UNCHANGED <<order, tx, queue>>
          ELSE /\ raised' = NoError
               /\ queue' = Append(queue, user)
               /\ IF atomic
                  THEN /\ tx' = [open |-> TRUE, row |-> row, hooks |-> << >>]
                       /\ UNCHANGED order
                  ELSE /\ order' = row
                       /\ UNCHANGED tx
    /\ called' = 0
    /\ UNCHANGED <<task, itemType, offType, itemState, itemMsg, itemTb, resState, extVars>>

\* tasks.approve_order(order, user), called inside an atomic block (the hook
\* waits for the commit) or in autocommit mode (save() commits and
\* transaction.on_commit runs the hook at once).
approve_order(user, atomic) ==
    /\ ~tx.open
    /\ LET r == Order_approve(order.state)
           row == [state |-> r.state, approved_by |-> user, approved_at |-> TimezoneNow]
       IN IF ~r.ok
          THEN /\ raised' = TransitionNotAllowed
               /\ UNCHANGED <<order, tx, queue>>
          ELSE /\ raised' = NoError
               /\ IF atomic
                  THEN /\ tx' = [open |-> TRUE, row |-> row, hooks |-> <<user>>]
                       /\ UNCHANGED <<order, queue>>
                  ELSE /\ order' = row
                       /\ queue' = Append(queue, user)
                       /\ UNCHANGED tx
    /\ called' = 0
    /\ UNCHANGED <<task, itemType, offType, itemState, itemMsg, itemTb, resState, extVars>>

ApproveOrder == \E user \in Users, atomic \in BOOLEAN : approve_order(user, atomic)

\* the atomic block around approve_order commits: the row becomes visible and
\* the on-commit hooks run process_order.delay
TxCommit ==
    /\ tx.open
    /\ order' = tx.row
    /\ queue' = queue \o tx.hooks
    /\ tx' = NoTx
    /\ raised' = NoError
    /\ called' = 0
    /\ UNCHANGED <<task, itemType, offType, itemState, itemMsg, itemTb, resState, extVars>>

\* the atomic block rolls back: the write and the hooks are discarded
TxRollback ==
    /\ tx.open
    /\ tx' = NoTx
    /\ raised' = NoError
    /\ called' = 0
    /\ UNCHANGED <<order, queue, task, itemType, offType, itemState, itemMsg, itemTb, resState, extVars>>

\* an Order transition method followed by save(); the UPDATE waits for the
\* row lock an open approval transaction holds
OrderOp(r) ==
    /\ ~tx.open
    /\ IF r.ok
       THEN /\ order' = [order EXCEPT !.state = r.state]
            /\ raised' = NoError
       ELSE /\ raised' = TransitionNotAllowed
            /\ UNCHANGED order
    /\ called' = 0
    /\ UNCHANGED <<tx, queue, task, itemType, offType, itemState, itemMsg, itemTb, resState, extVars>>

OrderComplete == OrderOp(Order_complete(order.state))
OrderTerminate == OrderOp(Order_terminate(order.state))
OrderReject == OrderOp(Order_reject(order.state))
OrderFail == OrderOp(Order_fail(order.state))

\* ------------------------------------------------------- process_order
\* the OrderItem objects the queryset of the loop yields: the rows of the
\* non-remote items as they are when the query runs
Snapshot == [i \in Items |-> IF offType[i] = REMOTE_PLUGIN_NAME THEN PENDING ELSE itemState[i]]

\* the save() that ends utils.process_order_item writes only update_fields
SaveItem(i, res) ==
    /\ itemState' = IF "state" \in res.saved
                    THEN [itemState EXCEPT ![i] = res.state] ELSE itemState
    /\ itemMsg' = IF "error_message" \in res.saved
                  THEN [itemMsg EXCEPT ![i] = res.error_message] ELSE itemMsg
    /\ itemTb' = IF "error_traceback" \in res.saved
                 THEN [itemTb EXCEPT ![i] = res.error_traceback] ELSE itemTb
    /\ called' = IF res.invoked THEN i ELSE 0

\* the iteration without the try/except of utils.process_order_item: the
\* exception of the processor leaves the loop and ends the task
LoopIterationWith_propagate(t, pos, snap, outcome) ==
    LET i == OrderItems[pos]
        r == set_state_executing(snap[i])
        res == process_order_item(LoadedItem(i, r.state), outcome)
    IN IF r.ok /\ ~(res.invoked /\ outcome.kind = "raise")
       THEN /\ SaveItem(i, [res EXCEPT !.saved = res.saved \cup {"state"}])
            /\ task' = [task EXCEPT ![t] =
                            IF pos = Len(OrderItems) THEN IdleTask
                            ELSE [pc |-> "loop", pos |-> pos + 1,
                                  snap |-> [snap EXCEPT ![i] = PENDING]]]
            /\ raised' = NoError
       ELSE /\ task' = [task EXCEPT ![t] = IdleTask]
            /\ raised' = IF r.ok THEN "Exception" ELSE TransitionNotAllowed
            /\ called' = IF r.ok THEN i ELSE 0
            /\ itemState' = IF r.ok THEN [itemState EXCEPT ![i] = r.state] ELSE itemState
            /\ UNCHANGED <<itemMsg, itemTb>>

\* one iteration of the loop of process_order on the position pos of the
\* queryset result snap: item.set_state_executing(),
\* item.save(update_fields=['state']), utils.process_order_item(item, user).
\* A TransitionNotAllowed leaves the loop and ends the task.
LoopIterationWith(t, pos, snap, outcome) ==
    LET i == OrderItems[pos]
        r == set_state_executing(snap[i])
    IN IF r.ok
       THEN /\ LET res == process_order_item(LoadedItem(i, r.state), outcome)
               IN SaveItem(i, [res EXCEPT !.saved = res.saved \cup {"state"}])
            /\ task' = [task EXCEPT ![t] =
                            IF pos = Len(OrderItems) THEN IdleTask
                            ELSE [pc |-> "loop", pos |-> pos + 1,
                                  snap |-> [snap EXCEPT ![i] = PENDING]]]
            /\ raised' = NoError
       ELSE /\ task' = [task EXCEPT ![t] = IdleTask]
            /\ raised' = TransitionNotAllowed
            /\ called' = 0
            /\ UNCHANGED <<itemState, itemMsg, itemTb>>

\* a worker takes a process_order message, deserializes the order and the
\* user, evaluates the queryset of the loop and runs its first iteration
ProcessOrderWith(t, outcome) ==
    /\ task[t].pc = "idle"
    /\ queue # << >>
    /\ queue' = Tail(queue)
    /\ IF OrderItems = << >>
       THEN /\ raised' = NoError
            /\ called' = 0
            /\ UNCHANGED <<task, itemState, itemMsg, itemTb>>
       ELSE LoopIterationWith(t, 1, Snapshot, outcome)
    /\ UNCHANGED <<order, tx, itemType, offType, resState, extVars>>

ProcessOrder(t) == \E outcome \in Outcomes : ProcessOrderWith(t, outcome)

\* the following iterations, on the items the queryset yielded
ProcessOrderIterationWith(t, outcome) ==
    /\ task[t].pc = "loop"
    /\ LoopIterationWith(t, task[t].pos, task[t].snap, outcome)
    /\ UNCHANGED <<order, tx, queue, itemType, offType, resState, extVars>>

ProcessOrderIteration(t) == \E outcome \in Outcomes : ProcessOrderIterationWith(t, outcome)

\* tasks.process_order_item(serialized_order_item, serialized_user): the
\* item is loaded afresh and dispatched in whatever state it is
ProcessOrderItemTaskWith(i, outcome) ==
    /\ SaveItem(i, process_order_item(LoadedItem(i, itemState[i]), outcome))
    /\ raised' = NoError
    /\ UNCHANGED <<order, tx, queue, task, itemType, offType, resState, extVars>>

ProcessOrderItemTask(i) == \E outcome \in Outcomes : ProcessOrderItemTaskWith(i, outcome)

\* ---------------------------------------------- OrderItem transition calls
\* an OrderItem transition method on a freshly loaded item, then save()
ItemOp(i, r) ==
    /\ IF r.ok
       THEN /\ itemState' = [itemState EXCEPT ![i] = r.state]
            /\ raised' = NoError
       ELSE /\ raised' = TransitionNotAllowed
            /\ UNCHANGED itemState
    /\ called' = 0
    /\ UNCHANGED <<order, tx, queue, task, itemType, offType, itemMsg, itemTb, resState, extVars>>

ItemSetStateExecuting(i) == ItemOp(i, set_state_executing(itemState[i]))
ItemSetStateDone(i) == ItemOp(i, set_state_done(itemState[i]))
ItemSetStateErred(i) == ItemOp(i, set_state_erred(itemState[i]))
ItemSetStateTerminated(i) == ItemOp(i, set_state_terminated(itemState[i]))
ItemSetStateTerminating(i) == ItemOp(i, set_state_terminating(itemState[i]))

Next ==
    \/ ApproveOrder
    \/ TxCommit
    \/ TxRollback
    \/ \E t \in Tasks : ProcessOrder(t)
    \/ \E t \in Tasks : ProcessOrderIteration(t)
    \/ \E i \in Items : ItemSetStateExecuting(i)
    \/ \E i \in Items : ItemSetStateDone(i)
    \/ \E i \in Items : ItemSetStateErred(i)
    \/ \E i \in Items : ItemSetStateTerminated(i)
    \/ \E i \in Items : ItemSetStateTerminating(i)

Spec == Init /\ [][Next]_vars

\* ------------------------------------- at-least-once delivery of the task
MaxQueue == 2      \* process_order messages that may wait at the same time

\* the broker delivers a waiting process_order message once more
Redeliver ==
    /\ queue # << >>
    /\ Len(queue) < MaxQueue
    /\ queue' = Append(queue, Head(queue))
    /\ raised' = NoError
    /\ called' = 0
    /\ UNCHANGED <<order, tx, task, itemType, offType, itemState, itemMsg, itemTb, resState, extVars>>

NextRedeliver ==
    \/ ApproveOrder
    \/ TxCommit
    \/ TxRollback
    \/ Redeliver
    \/ \E t \in Tasks : ProcessOrder(t)
    \/ \E t \in Tasks : ProcessOrderIteration(t)

SpecRedeliver == Init /\ [][NextRedeliver]_vars

\* every delivered message is taken by a worker and every started loop
\* goes on to its next iteration
SpecLive ==
    /\ Init
    /\ [][Next]_vars
    /\ \A t \in Tasks : WF_vars(ProcessOrder(t))
    /\ \A t \in Tasks : WF_vars(ProcessOrderIteration(t))
    /\ WF_vars(TxCommit)

\* --------------------------------------- OrderItem state machine alone
NextItem ==
    \/ \E i \in Items : ProcessOrderItemTask(i)
    \/ \E i \in Items : ItemSetStateExecuting(i)
    \/ \E i \in Items : ItemSetStateDone(i)
    \/ \E i \in Items : ItemSetStateErred(i)
    \/ \E i \in Items : ItemSetStateTerminated(i)
    \/ \E i \in Items : ItemSetStateTerminating(i)

SpecItem == Init /\ [][NextItem]_vars

\* ------------------------------------- Order approval and transitions
NextOrder ==
    \/ ApproveOrder
    \/ TxCommit
    \/ TxRollback
    \/ OrderComplete
    \/ OrderTerminate
    \/ OrderReject
    \/ OrderFail
    \/ \E t \in Tasks : ProcessOrder(t)
    \/ \E t \in Tasks : ProcessOrderIteration(t)

SpecOrder == Init /\ [][NextOrder]_vars

\* ------------------------------------------------- Resource lifecycle
\* a Resource transition method on a freshly loaded resource, then save()
ResourceOp(r, res) ==
    /\ IF res.ok
       THEN /\ resState' = [resState EXCEPT ![r] = res.state]
            /\ raised' = NoError
       ELSE /\ raised' = TransitionNotAllowed
            /\ UNCHANGED resState
    /\ UNCHANGED <<orderVars, extVars>>

ResourceSetStateOk(r) == ResourceOp(r, Resource_set_state_ok(resState[r]))
ResourceSetStateErred(r) == ResourceOp(r, Resource_set_state_erred(resState[r]))
ResourceSetStateUpdating(r) == ResourceOp(r, Resource_set_state_updating(resState[r]))
ResourceSetStateTerminating(r) == ResourceOp(r, Resource_set_state_terminating(resState[r]))
ResourceSetStateTerminated(r) == ResourceOp(r, Resource_set_state_terminated(resState[r]))

NextResource ==
    \/ \E r \in Resources : ResourceSetStateOk(r)
    \/ \E r \in Resources : ResourceSetStateErred(r)
    \/ \E r \in Resources : ResourceSetStateUpdating(r)
    \/ \E r \in Resources : ResourceSetStateTerminating(r)
    \/ \E r \in Resources : ResourceSetStateTerminated(r)

SpecResource == Init /\ [][NextResource]_vars

\* ======================================================================
\* Cost estimate of order items (CostEstimateMixin, RequestTypeMixin,
\* Order.add_item, Order.init_total_cost)
\* ======================================================================
MaxCart == 3       \* items one order collects through add_item

\* offering.get_limit_components(): the LIMIT-billed component types
LimitComponents == {"cpu"}

\* a limits dict as a set of <<key, value>> pairs
LimitsChoices == {{}, {<<"cpu", 2>>}}
DictHas(d, key) == \E p \in d : p[1] = key
DictGet(d, key, default) ==
    IF DictHas(d, key) THEN (CHOOSE p \in d : p[1] = key)[2] ELSE default

\* plans: unit_price, the PlanComponent prices by component type, and the
\* sums of the ONE_TIME and ON_PLAN_SWITCH component prices
NoPlan == [name |-> None, unit_price |-> 0, prices |-> {}, init_price |-> 0, switch_price |-> 0]
PlanChoices ==
    { NoPlan,
      [name |-> "basic", unit_price |-> 10, prices |-> {<<"cpu", 3>>}, init_price |-> 5, switch_price |-> 2],
      [name |-> "free", unit_price |-> 0, prices |-> {}, init_price |-> 0, switch_price |-> 0] }
HasPlan(plan) == plan.name # None

\* Plan.get_estimate(limits), component factors 1
RECURSIVE SumLimits(_, _, _)
SumLimits(keys, plan, limits) ==
    IF keys = {} THEN 0
    ELSE LET key == CHOOSE k \in keys : TRUE
         IN DictGet(plan.prices, key, 0) * DictGet(limits, key, 0)
            + SumLimits(keys \ {key}, plan, limits)

get_estimate(plan, limits) ==
    plan.unit_price + (IF limits # {} THEN SumLimits(LimitComponents, plan, limits) ELSE 0)

\* CostEstimateMixin.init_cost
CostEstimateMixin_init_cost(cost, plan, limits) ==
    IF HasPlan(plan) THEN Some(get_estimate(plan, limits)) ELSE cost

\* RequestTypeMixin.init_cost
init_cost(type, cost, plan, limits) ==
    LET base == CostEstimateMixin_init_cost(cost, plan, limits)
    IN IF HasPlan(plan)
       THEN IF type = CREATE THEN Some(base[1] + plan.init_price)
            ELSE IF type = UPDATE THEN Some(base[1] + plan.switch_price)
            ELSE base
       ELSE base

\* OrderItem.clean without the comparison of request types
clean_no_type_check(items, type, allowed) ==
    IF allowed THEN NoError ELSE ValidationError

\* OrderItem.clean: the type of the first item of the order, then whether
\* the offering is shared or belongs to the customer or project
clean(items, type, allowed) ==
    IF Len(items) > 0 /\ items[1].type # type
    THEN ValidationError
    ELSE IF allowed THEN NoError ELSE ValidationError

\* sum(item.cost or 0 for item in self.items.all()) skipping Terminate items
RECURSIVE SumCostNoTerminate(_)
SumCostNoTerminate(items) ==
    IF items = << >> THEN 0
    ELSE (IF Head(items).type = TERMINATE THEN 0 ELSE OrZero(Head(items).cost))
         + SumCostNoTerminate(Tail(items))

\* sum(item.cost or 0 for item in self.items.all())
RECURSIVE SumCost(_)
SumCost(items) ==
    IF items = << >> THEN 0
    ELSE OrZero(Head(items).cost) + SumCost(Tail(items))

\* Order.add_item(type=..., plan=..., limits=..., offering=...)
add_item(type, plan, limits, allowed) ==
    /\ Len(cart) < MaxCart
    /\ LET err == clean(cart, type, allowed)
           order_item == [type |-> type, plan |-> plan, limits |-> limits,
                          cost |-> init_cost(type, Null, plan, limits)]
       IN IF err # NoError
          THEN /\ raised' = err
               /\ UNCHANGED cart
          ELSE /\ raised' = NoError
               /\ cart' = Append(cart, order_item)
    /\ UNCHANGED <<total_cost, orderVars, resState, limitVars, rollupVars, tailVars>>

AddItem ==
    \E type \in RequestTypes, plan \in PlanChoices, limits \in LimitsChoices, allowed \in BOOLEAN :
        add_item(type, plan, limits, allowed)

\* Order.init_total_cost()
init_total_cost ==
    /\ total_cost' = Some(SumCost(cart))
    /\ raised' = NoError
    /\ UNCHANGED <<cart, orderVars, resState, limitVars, rollupVars, tailVars>>

InitCart ==
    /\ Untouched
    /\ TailIdle
    /\ raised = NoError
    /\ CartInit
    /\ LimitIdle
    /\ RollupIdle

NextCart ==
    \/ AddItem
    \/ init_total_cost

SpecCart == InitCart /\ [][NextCart]_vars

\* ---------------------------------------- add_item calls that interleave
\* the first half of Order.add_item in the request a: the OrderItem is
\* built, clean() reads the items saved so far, init_cost() sets the cost
AddItemClean(a) ==
    /\ adder[a].pc = "idle"
    /\ Len(cart) + Cardinality({b \in Adders : adder[b].pc = "save"}) < MaxCart
    /\ \E type \in RequestTypes, allowed \in BOOLEAN :
        LET err == clean(cart, type, allowed)
        IN IF err # NoError
           THEN /\ raised' = err
                /\ UNCHANGED adder
           ELSE /\ raised' = NoError
                /\ adder' = [adder EXCEPT ![a] = [pc |-> "save", type |-> type]]
    /\ UNCHANGED <<cartVars, orderVars, resState, limitVars, rollupVars, invoiceVars, moveVars, sweepVars,
                   staleVars, ccuCustomer, quotaVars>>

\* the second half: order_item.save()
AddItemSave(a) ==
    /\ adder[a].pc = "save"
    /\ cart' = Append(cart, [type |-> adder[a].type, plan |-> NoPlan, limits |-> {},
                            cost |-> init_cost(adder[a].type, Null, NoPlan, {})])
    /\ adder' = [adder EXCEPT ![a] = IdleAdder]
    /\ raised' = NoError
    /\ UNCHANGED <<total_cost, orderVars, resState, limitVars, rollupVars, invoiceVars, moveVars, sweepVars,
                   staleVars, ccuCustomer, quotaVars>>

NextCartConcurrent ==
    \/ \E a \in Adders : AddItemClean(a)
    \/ \E a \in Adders : AddItemSave(a)

SpecCartConcurrent == InitCart /\ [][NextCartConcurrent]_vars

\* ======================================================================
\* Usage limit of a component (OfferingComponent.validate_amount)
\* ======================================================================
UsageValues == {10, 60}
Amounts == {30, 50}
LimitAmounts == {Null, Some(0), Some(100)}
LimitPeriods == {Null, Some(MONTH), Some(TOTAL)}

\* usages.aggregate(Sum('usage'))['usage__sum'] or 0 over the rows kept by
\* the filter
RECURSIVE SumUsage(_, _)
SumUsage(rows, kept) ==
    IF kept = {} THEN 0
    ELSE LET u == CHOOSE x \in kept : TRUE
         IN rows[u].usage + SumUsage(rows, kept \ {u})

\* OfferingComponent.validate_amount(resource, amount, date)
validate_amount(comp, rows, amount, date) ==
    IF comp.limit_period = Null \/ comp.limit_amount = Null \/ comp.limit_amount = Some(0)
    THEN NoError
    ELSE LET kept == IF comp.limit_period = Some(MONTH)
                     THEN {u \in DOMAIN rows : rows[u].date = month_start(date)}
                     ELSE DOMAIN rows
             total == SumUsage(rows, kept)
         IN IF total + amount > comp.limit_amount[1] THEN ValidationError ELSE NoError

ValidateAmount ==
    \E amount \in Amounts, date \in Instants :
        /\ raised' = validate_amount(component, usages, amount, date)
        /\ lastCall' = [fn |-> "validate_amount", amount |-> amount, date |-> date]
        /\ UNCHANGED <<usages, component, offering, cartVars, orderVars, resState, rollupVars, tailVars>>

\* the usage rows and the component configuration found in the database
InitAmount ==
    /\ Untouched
    /\ TailIdle
    /\ raised = NoError
    /\ CartInit
    /\ RollupIdle
    /\ usages \in [UsageRows -> [date : Instants, usage : UsageValues]]
    /\ component \in [limit_period : LimitPeriods, limit_amount : LimitAmounts]
    /\ offering = [can_update_limits |-> FALSE, max_value |-> Null, min_value |-> Null]
    /\ lastCall = NoCall

NextAmount == ValidateAmount

SpecAmount == InitAmount /\ [][NextAmount]_vars

\* ======================================================================
\* Limits of an order item or resource (utils.validate_limits)
\* ======================================================================
\* offering.components: "cpu" is LIMIT-billed with the configured bounds,
\* "ram" is USAGE-billed
ComponentBilling == [cpu |-> LIMIT, ram |-> USAGE]
MaxValues == {Null, Some(0), Some(16)}
MinValues == {Null, Some(0), Some(2)}
RequestedLimits ==
    { cpu \cup ram :
        cpu \in {{}} \cup {{<<"cpu", v>>} : v \in {-1, 1, 20}},
        ram \in {{}, {<<"ram", 1>>}} }
DictKeys(d) == {p[1] : p \in d}

\* utils.validate_limits(limits, offering)
validate_limits(limits, off) ==
    IF ~off.can_update_limits THEN ValidationError
    ELSE LET valid_component_types == {t \in DOMAIN ComponentBilling : ComponentBilling[t] = LIMIT}
             invalid_types == DictKeys(limits) \ valid_component_types
         IN IF invalid_types # {} THEN ValidationError
            ELSE IF \E p \in limits :
                       \/ (off.max_value # Null /\ off.max_value # Some(0) /\ p[2] > off.max_value[1])
                       \/ (off.min_value # Null /\ off.min_value # Some(0) /\ p[2] < off.min_value[1])
                 THEN ValidationError
                 ELSE NoError

ValidateLimits ==
    \E limits \in RequestedLimits :
        /\ raised' = validate_limits(limits, offering)
        /\ lastCall' = [fn |-> "validate_limits", limits |-> limits]
        /\ UNCHANGED <<usages, component, offering, cartVars, orderVars, resState, rollupVars, tailVars>>

InitLimits ==
    /\ Untouched
    /\ TailIdle
    /\ raised = NoError
    /\ CartInit
    /\ RollupIdle
    /\ usages = [u \in UsageRows |-> [date |-> 0, usage |-> 0]]
    /\ component = [limit_period |-> Null, limit_amount |-> Null]
    /\ offering \in [can_update_limits : BOOLEAN, max_value : MaxValues, min_value : MinValues]
    /\ lastCall = NoCall

NextLimits == ValidateLimits

SpecLimits == InitLimits /\ [][NextLimits]_vars

\* ======================================================================
\* Monthly usage rollup (tasks.calculate_usage_for_scope)
\* ======================================================================
\* invoice_utils.get_current_month_start() / get_current_month_end()
CurrentMonthStart == MaxMonth * DaysPerMonth
CurrentMonthEnd == CurrentMonthStart + DaysPerMonth - 1

\* CategoryComponent ids
CategoryComponents == {"cores", "ram"}
Parents == CategoryComponents \cup {None}

\* tasks.aggregate_reported_usage(start, end, scope)
aggregate_reported_usage(start, end) ==
    LET kept == {u \in UsageRows : usages[u].date >= start /\ usages[u].date <= end}
    IN IF usageParent = None \/ kept = {}
       THEN {}
       ELSE {<<usageParent, SumUsage(usages, kept)>>}

RECURSIVE SumAmount(_)
SumAmount(rows) ==
    IF rows = {} THEN 0
    ELSE LET r == CHOOSE x \in rows : TRUE
         IN periods[r].amount + SumAmount(rows \ {r})

\* tasks.aggregate_fixed_usage(start, end, scope)
aggregate_fixed_usage(start, end) ==
    LET kept == {r \in PeriodRows :
                    \/ (periods[r].end # Null /\ periods[r].start >= start /\ periods[r].end[1] <= end)
                    \/ periods[r].end = Null
                    \/ (periods[r].end # Null /\ periods[r].end[1] >= start /\ periods[r].end[1] <= end)}
    IN {<<p, SumAmount({r \in kept : periods[r].parent = p})>> :
            p \in {periods[r].parent : r \in kept}}

\* dict.get(key) with None for a missing key
DictGetOrNull(dict, key) == IF DictHas(dict, key) THEN Some(DictGet(dict, key, 0)) ELSE Null

\* rows update_or_create's get() matches
Matching(table, component_id, date) ==
    {i \in 1..Len(table) : table[i].component = component_id /\ table[i].date = date}

MultipleObjectsReturned == "MultipleObjectsReturned"

\* update_or_create adding to the stored values instead of replacing them
update_or_create_accumulate(table, component_id, date, reported, fixed) ==
    LET found == Matching(table, component_id, date)
        row == [component |-> component_id, date |-> date,
                reported_usage |-> reported, fixed_usage |-> fixed]
    IN IF found = {}
       THEN [table |-> Append(table, row), error |-> NoError]
       ELSE IF Cardinality(found) > 1
            THEN [table |-> table, error |-> MultipleObjectsReturned]
            ELSE LET i == CHOOSE x \in found : TRUE
                 IN [table |-> [table EXCEPT ![i] =
                        [row EXCEPT !.reported_usage = Some(OrZero(table[i].reported_usage) + OrZero(reported)),
                                    !.fixed_usage = Some(OrZero(table[i].fixed_usage) + OrZero(fixed))]],
                     error |-> NoError]

\* CategoryComponentUsage.objects.update_or_create(...), run without
\* interruption: [table, error]
update_or_create(table, component_id, date, reported, fixed) ==
    LET found == Matching(table, component_id, date)
        row == [component |-> component_id, date |-> date,
                reported_usage |-> reported, fixed_usage |-> fixed]
    IN IF found = {}
       THEN [table |-> Append(table, row), error |-> NoError]
       ELSE IF Cardinality(found) > 1
            THEN [table |-> table, error |-> MultipleObjectsReturned]
            ELSE [table |-> [table EXCEPT ![CHOOSE i \in found : TRUE] = row], error |-> NoError]

\* the loop of calculate_usage_for_scope over the component ids
RECURSIVE UpsertAll(_, _, _, _, _)
UpsertAll(table, components, date, reported_usage, fixed_usage) ==
    IF components = {} THEN [table |-> table, error |-> NoError]
    ELSE LET component_id == CHOOSE c \in components : TRUE
             r == update_or_create(table, component_id, date,
                                   DictGetOrNull(reported_usage, component_id),
                                   DictGetOrNull(fixed_usage, component_id))
         IN IF r.error # NoError THEN r
            ELSE UpsertAll(r.table, components \ {component_id}, date, reported_usage, fixed_usage)

\* the fixed usage dict with its None entry left in
PopNone_keep(dict) ==
    dict

\* fixed_usage.pop(None, None)
PopNone(dict) ==
    {p \in dict : p[1] # None}

\* calculate_usage_for_scope(start, end, scope), one execution running
\* alone from its first to its last statement
calculate_usage_for_scope ==
    /\ \A w \in Workers : worker[w].pc = "idle"
    /\ LET start == CurrentMonthStart
           reported_usage == aggregate_reported_usage(start, CurrentMonthEnd)
           fixed_usage == PopNone(aggregate_fixed_usage(start, CurrentMonthEnd))
           components == DictKeys(reported_usage) \cup DictKeys(fixed_usage)
           r == UpsertAll(ccu, components, start, reported_usage, fixed_usage)
       IN /\ ccu' = r.table
          /\ raised' = r.error
    /\ lastCall' = [fn |-> "calculate_usage_for_scope"]
    /\ UNCHANGED <<usages, component, offering, usageParent, periods, worker, cartVars, orderVars, resState, tailVars>>

\* an execution starts: both aggregates are read and the key set is built
RollupBegin(w) ==
    /\ worker[w].pc = "idle"
    /\ LET reported_usage == aggregate_reported_usage(CurrentMonthStart, CurrentMonthEnd)
           fixed_usage == PopNone(aggregate_fixed_usage(CurrentMonthStart, CurrentMonthEnd))
       IN worker' = [worker EXCEPT ![w] =
              [pc |-> "loop", reported_usage |-> reported_usage, fixed_usage |-> fixed_usage,
               components |-> DictKeys(reported_usage) \cup DictKeys(fixed_usage), current |-> None]]
    /\ raised' = NoError
    /\ lastCall' = [fn |-> "calculate_usage_for_scope"]
    /\ UNCHANGED <<usages, component, offering, usageParent, periods, ccu, cartVars, orderVars, resState, tailVars>>

\* update_or_create: select_for_update().get(); a matching row is locked
\* and saved with the defaults, no row leaves the create for a later
\* statement, several rows raise MultipleObjectsReturned
RollupGet(w) ==
    /\ worker[w].pc = "loop"
    /\ worker[w].components # {}
    /\ \E component_id \in worker[w].components :
        LET found == Matching(ccu, component_id, CurrentMonthStart)
        IN IF found = {}
           THEN /\ worker' = [worker EXCEPT ![w].pc = "create", ![w].current = component_id]
                /\ raised' = NoError
                /\ UNCHANGED ccu
           ELSE LET r == update_or_create(ccu, component_id, CurrentMonthStart,
                                          DictGetOrNull(worker[w].reported_usage, component_id),
                                          DictGetOrNull(worker[w].fixed_usage, component_id))
                IN /\ ccu' = r.table
                   /\ raised' = r.error
                   /\ worker' = IF r.error # NoError
                                 THEN [worker EXCEPT ![w] = IdleWorker]
                                 ELSE [worker EXCEPT ![w].components = @ \ {component_id}]
    /\ UNCHANGED <<usages, component, offering, lastCall, usageParent, periods, cartVars, orderVars, resState, tailVars>>

\* update_or_create: the INSERT after get() found no row; the table has no
\* unique constraint, so the INSERT succeeds whatever was inserted meanwhile
RollupCreate(w) ==
    /\ worker[w].pc = "create"
    /\ LET component_id == worker[w].current
       IN ccu' = Append(ccu, [component |-> component_id, date |-> CurrentMonthStart,
                              reported_usage |-> DictGetOrNull(worker[w].reported_usage, component_id),
                              fixed_usage |-> DictGetOrNull(worker[w].fixed_usage, component_id)])
    /\ worker' = [worker EXCEPT ![w].pc = "loop", ![w].current = None,
                                ![w].components = @ \ {worker[w].current}]
    /\ raised' = NoError
    /\ UNCHANGED <<usages, component, offering, lastCall, usageParent, periods, cartVars, orderVars, resState, tailVars>>

\* the loop is over
RollupEnd(w) ==
    /\ worker[w].pc = "loop"
    /\ worker[w].components = {}
    /\ worker' = [worker EXCEPT ![w] = IdleWorker]
    /\ raised' = NoError
    /\ UNCHANGED <<usages, component, offering, lastCall, usageParent, periods, ccu, cartVars, orderVars, resState, tailVars>>

\* the rows left by an earlier month's and by an earlier run of this month
StaleRow == [component |-> "cores", date |-> CurrentMonthStart, reported_usage |-> Some(1), fixed_usage |-> Null]
PeriodChoices ==
    {p \in [start : Instants, end : {Null} \cup {Some(i) : i \in Instants}, parent : Parents, amount : {2}] :
        p.end = Null \/ p.end[1] >= p.start}

InitRollup ==
    /\ Untouched
    /\ TailIdle
    /\ raised = NoError
    /\ CartInit
    /\ usages \in [UsageRows -> [date : Instants, usage : {10}]]
    /\ component = [limit_period |-> Null, limit_amount |-> Null]
    /\ offering = [can_update_limits |-> FALSE, max_value |-> Null, min_value |-> Null]
    /\ lastCall = NoCall
    /\ usageParent \in {None, "cores"}
    /\ periods \in [PeriodRows -> PeriodChoices]
    /\ ccu \in {<< >>, <<StaleRow>>}
    /\ worker = [w \in Workers |-> IdleWorker]

\* calculate_usage_for_current_month(): the scopes are the customer and
\* then its project; the resources of the model are all of that project,
\* so both scopes aggregate the same rows
calculate_usage_for_current_month ==
    /\ \A w \in Workers : worker[w].pc = "idle"
    /\ LET start == CurrentMonthStart
           reported_usage == aggregate_reported_usage(start, CurrentMonthEnd)
           fixed_usage == PopNone(aggregate_fixed_usage(start, CurrentMonthEnd))
           components == DictKeys(reported_usage) \cup DictKeys(fixed_usage)
           c == UpsertAll(ccuCustomer, components, start, reported_usage, fixed_usage)
           p == IF c.error # NoError THEN [table |-> ccu, error |-> c.error]
                ELSE UpsertAll(ccu, components, start, reported_usage, fixed_usage)
       IN /\ ccuCustomer' = c.table
          /\ ccu' = p.table
          /\ raised' = p.error
    /\ lastCall' = [fn |-> "calculate_usage_for_current_month"]
    /\ UNCHANGED <<usages, component, offering, usageParent, periods, worker, cartVars, orderVars, resState,
                   invoiceVars, moveVars, sweepVars, staleVars, quotaVars, adder>>

NextRollup == calculate_usage_for_scope

NextRollupMonth == calculate_usage_for_current_month

SpecRollupMonth == InitRollup /\ [][NextRollupMonth]_vars

SpecRollup == InitRollup /\ [][NextRollup]_vars

NextRollupConcurrent ==
    \/ \E w \in Workers : RollupBegin(w)
    \/ \E w \in Workers : RollupGet(w)
    \/ \E w \in Workers : RollupCreate(w)
    \/ \E w \in Workers : RollupEnd(w)

SpecRollupConcurrent == InitRollup /\ [][NextRollupConcurrent]_vars

\* ======================================================================
\* Invoice item quantity and reported usage
\* (invoices.serializers.InvoiceItemUpdateSerializer.update)
\* ======================================================================
\* marketplace PlanComponent rows: id -> billing type of the offering
\* component; id 3 is not in the table
FIXED == "fixed"
PlanComponentTable == [one |-> USAGE, two |-> FIXED]
PlanComponentIds == {Null, Some("one"), Some("two"), Some("three")}
Quantities == {Null, Some(0), Some(5)}
ArticleCodes == {Null, Some("A1")}
TheResource == "r1"
InvoiceMonth == MaxMonth

\* ComponentUsage rows of the item's resource and offering component with
\* the billing period of the invoice
UsagesOfInvoice(rows) ==
    {u \in DOMAIN rows : rows[u].resource = TheResource /\ rows[u].billing_period = InvoiceMonth}

\* .order_by('date').last(): a row none is later than
LastByDate(rows, kept) == {u \in kept : \A v \in kept : rows[v].date <= rows[u].date}

\* .order_by('date').first()
FirstByDate(rows, kept) == {u \in kept : \A v \in kept : rows[v].date >= rows[u].date}

\* ModelSerializer.update: set the validated fields, save
super_update(item, validated_data) ==
    [item EXCEPT !.quantity = IF validated_data.quantity = Null THEN @ ELSE validated_data.quantity[1],
                 !.article_code = IF validated_data.article_code = Null THEN @ ELSE validated_data.article_code[1]]

\* the lookups of update that end in a ValidationError
UpdateRejected(item, rows) ==
    \/ item.resource = Null
    \/ item.plan_component_id = Null
    \/ item.plan_component_id[1] \notin DOMAIN PlanComponentTable
    \/ PlanComponentTable[item.plan_component_id[1]] # USAGE
    \/ UsagesOfInvoice(rows) = {}

\* InvoiceItemUpdateSerializer.update writing the oldest usage row
update_first(validated_data, u) ==
    /\ IF validated_data.quantity = Null
       THEN /\ invoiceItem' = super_update(invoiceItem, validated_data)
            /\ raised' = NoError
            /\ UNCHANGED usages
       ELSE IF UpdateRejected(invoiceItem, usages)
            THEN /\ raised' = ValidationError
                 /\ UNCHANGED <<invoiceItem, usages>>
            ELSE /\ u \in FirstByDate(usages, UsagesOfInvoice(usages))
                 /\ usages' = [usages EXCEPT ![u].usage = validated_data.quantity[1]]
                 /\ invoiceItem' = super_update(invoiceItem, validated_data)
                 /\ raised' = NoError
    /\ lastCall' = [fn |-> "update", quantity |-> validated_data.quantity]
    /\ UNCHANGED <<component, offering, cartVars, orderVars, resState, rollupVars, moveVars, sweepVars, lateVars>>

\* InvoiceItemUpdateSerializer.update(instance, validated_data); u is the
\* row .last() returns when rows match
update(validated_data, u) ==
    /\ IF validated_data.quantity = Null
       THEN /\ invoiceItem' = super_update(invoiceItem, validated_data)
            /\ raised' = NoError
            /\ UNCHANGED usages
       ELSE IF UpdateRejected(invoiceItem, usages)
            THEN /\ raised' = ValidationError
                 /\ UNCHANGED <<invoiceItem, usages>>
            ELSE /\ u \in LastByDate(usages, UsagesOfInvoice(usages))
                 /\ usages' = [usages EXCEPT ![u].usage = validated_data.quantity[1]]
                 /\ invoiceItem' = super_update(invoiceItem, validated_data)
                 /\ raised' = NoError
    /\ lastCall' = [fn |-> "update", quantity |-> validated_data.quantity]
    /\ UNCHANGED <<component, offering, cartVars, orderVars, resState, rollupVars, moveVars, sweepVars, lateVars>>

UpdateInvoiceItem ==
    \E validated_data \in [quantity : Quantities, article_code : ArticleCodes], u \in UsageRows :
        update(validated_data, u)

InitInvoice ==
    /\ Untouched
    /\ LateIdle
    /\ raised = NoError
    /\ CartInit
    /\ RollupIdle
    /\ usages \in [UsageRows -> [date : Instants, usage : {10}, billing_period : Months,
                                  resource : {TheResource, "r2"}]]
    /\ component = [limit_period |-> Null, limit_amount |-> Null]
    /\ offering = [can_update_limits |-> FALSE, max_value |-> Null, min_value |-> Null]
    /\ lastCall = NoCall
    /\ invoiceItem \in [resource : {Null, Some(TheResource)}, plan_component_id : PlanComponentIds,
                         quantity : {1}, article_code : {""}]
    /\ MoveIdle
    /\ SweepIdle

NextInvoice == UpdateInvoiceItem

SpecInvoice == InitInvoice /\ [][NextInvoice]_vars

\* ======================================================================
\* Moving a resource to another project (utils.move_resource)
\* ======================================================================
MoveResourceException == "MoveResourceException"
INVOICE_PENDING == "pending"
INVOICE_PAID == "paid"
INVOICE_MISSING == "missing"

\* the loop over the orders of the resource, from order o on: [db, error]
RECURSIVE MoveOrders(_, _)
MoveOrders(db, o) ==
    IF o > MaxOrders THEN [db |-> db, error |-> NoError]
    ELSE IF db.shared[o]
         THEN [db |-> db, error |-> MoveResourceException]
         ELSE MoveOrders([db EXCEPT !.orders[o] = NewProject], o + 1)

\* the loop over the invoice items the queryset selected, from item i on;
\* get_or_create_invoice creates a pending invoice where the new customer
\* has none for the month
RECURSIVE MoveInvoiceItems(_, _, _)
MoveInvoiceItems(db, selected, i) ==
    IF i > MaxInvoiceItems THEN [db |-> db, error |-> NoError]
    ELSE IF i \notin selected THEN MoveInvoiceItems(db, selected, i + 1)
    ELSE LET month == db.items[i].month
             created == IF db.invoices[NewProject][month] = INVOICE_MISSING
                        THEN [db EXCEPT !.invoices[NewProject][month] = INVOICE_PENDING]
                        ELSE db
         IN IF created.invoices[NewProject][month] # INVOICE_PENDING
            THEN [db |-> created, error |-> MoveResourceException]
            ELSE MoveInvoiceItems(
                    [created EXCEPT !.items[i] = [project |-> NewProject, customer |-> NewProject, month |-> month]],
                    selected, i + 1)

\* the statements of move_resource in order: [db, error] at the point
\* where the function returns or raises
MoveStatements(db) ==
    IF db.blocked THEN [db |-> db, error |-> ValidationError]
    ELSE LET old_project == db.resource
             db1 == [db EXCEPT !.resource = NewProject,
                               !.scope = IF @ = Null THEN Null ELSE Some(NewProject)]
             r2 == MoveOrders(db1, 1)
             selected == {i \in InvoiceItemIds :
                            /\ db1.items[i].project = old_project
                            /\ db1.invoices[db1.items[i].customer][db1.items[i].month] = INVOICE_PENDING}
         IN IF r2.error # NoError THEN r2
            ELSE MoveInvoiceItems(r2.db, selected, 1)

\* move_resource without @transaction.atomic: what was saved before the
\* exception stays
move_resource_not_atomic(db) == MoveStatements(db)

\* @transaction.atomic move_resource(resource, project): an exception
\* rolls every write of the call back
move_resource(db) ==
    LET r == MoveStatements(db)
    IN IF r.error # NoError THEN [db |-> db, error |-> r.error] ELSE r

MoveResource ==
    /\ LET r == move_resource(placement)
       IN /\ placement' = r.db
          /\ raised' = r.error
    /\ lastCall' = [fn |-> "move_resource"]
    /\ UNCHANGED <<usages, component, offering, cartVars, orderVars, resState, rollupVars, invoiceVars, sweepVars, lateVars>>

InitMove ==
    /\ Untouched
    /\ LateIdle
    /\ raised = NoError
    /\ CartInit
    /\ LimitIdle
    /\ RollupIdle
    /\ InvoiceIdle
    /\ SweepIdle
    /\ placement \in
         [blocked : BOOLEAN,
          resource : {OldProject},
          scope : {Null, Some(OldProject)},
          shared : [OrderIds -> BOOLEAN],
          orders : {[o \in OrderIds |-> OldProject]},
          items : [InvoiceItemIds -> [project : {OldProject, OtherProject}, customer : {OldProject}, month : Months]],
          invoices : {inv \in [{OldProject, NewProject} -> [Months -> {INVOICE_MISSING, INVOICE_PENDING, INVOICE_PAID}]] :
                        \A m \in Months : inv[OldProject][m] # INVOICE_MISSING}]

NextMove == MoveResource

SpecMove == InitMove /\ [][NextMove]_vars

\* ======================================================================
\* Expiry sweep (tasks.terminate_resource_if_its_end_date_has_been_reached,
\* utils.schedule_resources_termination)
\* ======================================================================
\* timezone.datetime.today() on the scale of Instants
Today == CurrentMonthStart

\* Resource.objects.exclude(end_date__isnull=True, state__in=(TERMINATED,
\* TERMINATING)).filter(end_date__lte=today): exclude() drops the rows that
\* meet both conditions at once
expired_resources ==
    {r \in Resources :
        /\ ~(endDate[r] = Null /\ resState[r] \in {RES_TERMINATED, RES_TERMINATING})
        /\ endDate[r] # Null
        /\ endDate[r][1] <= Today}

\* schedule_resources_termination giving up at the first failed request
schedule_resources_termination_stop(resources, failing) ==
    IF resources = {} \/ ~robot THEN [submitted |-> {}, logged |-> {}]
    ELSE [submitted |-> {r \in resources : \A f \in resources \cap failing : r <= f},
          logged |-> {r \in resources \cap failing : \A f \in resources \cap failing : r <= f}]

\* utils.schedule_resources_termination(resources): nothing without
\* resources, an error in the log without the system robot, else one POST
\* to the terminate view per resource; failing holds the resources whose
\* response is not 200 OK, which are logged
schedule_resources_termination(resources, failing) ==
    IF resources = {} THEN [submitted |-> {}, logged |-> {}]
    ELSE IF ~robot THEN [submitted |-> {}, logged |-> {0}]
    ELSE [submitted |-> resources, logged |-> resources \cap failing]

terminate_resource_if_its_end_date_has_been_reached ==
    \E failing \in SUBSET expired_resources :
        LET r == schedule_resources_termination(expired_resources, failing)
        IN /\ submitted' = r.submitted
           /\ raised' = NoError
           /\ lastCall' = [fn |-> "terminate_resource_if_its_end_date_has_been_reached",
                           logged |-> r.logged]
           /\ UNCHANGED <<endDate, robot, usages, component, offering, cartVars, orderVars, resState,
                          rollupVars, invoiceVars, moveVars, lateVars>>

InitSweep ==
    /\ UntouchedOrder
    /\ LateIdle
    /\ raised = NoError
    /\ CartInit
    /\ LimitIdle
    /\ RollupIdle
    /\ InvoiceIdle
    /\ MoveIdle
    /\ resState \in [Resources -> ResourceStates]
    /\ endDate \in [Resources -> {Null, Some(Today), Some(Today + 1)}]
    /\ robot \in BOOLEAN
    /\ submitted = {}

NextSweep == terminate_resource_if_its_end_date_has_been_reached

SpecSweep == InitSweep /\ [][NextSweep]_vars

\* ======================================================================
\* Stale resources (tasks.notify_about_stale_resource)
\* ======================================================================
AttributeError == "AttributeError"

\* invoice items of the invoices of this month and the two months before
\* (age 0, 1, 2); age 3 is an older invoice
RecentItems == {i \in InvoiceItemIds : billing.items[i].age <= 2}

\* the first loop: the ids of the resources of the items with a price; an
\* item without a resource has no id to read
ActualResources ==
    IF \E i \in RecentItems : billing.items[i].price # 0 /\ billing.items[i].resource = Null
    THEN [error |-> AttributeError, ids |-> {}]
    ELSE [error |-> NoError,
          ids |-> {billing.items[i].resource[1] : i \in {j \in RecentItems : billing.items[j].price # 0}}]

\* the resources the queryset keeps
StaleResources(actual_resources_ids) ==
    {r \in Resources :
        /\ r \notin actual_resources_ids
        /\ resState[r] \notin {RES_TERMINATED, RES_TERMINATING, RES_CREATING}
        /\ billing.billable[r]}

\* notify_about_stale_resource(): one mail per owner address naming the
\* resources
notify_about_stale_resource ==
    /\ IF ~billing.enabled
       THEN /\ notified' = {}
            /\ raised' = NoError
       ELSE IF ActualResources.error # NoError
            THEN /\ notified' = {}
                 /\ raised' = ActualResources.error
            ELSE /\ notified' = IF billing.owners THEN StaleResources(ActualResources.ids) ELSE {}
                 /\ raised' = NoError
    /\ lastCall' = [fn |-> "notify_about_stale_resource"]
    /\ UNCHANGED <<billing, ccuCustomer, quotaVars, adder, usages, component, offering, cartVars, orderVars,
                   resState, rollupVars, invoiceVars, moveVars, sweepVars>>

InitStale ==
    /\ UntouchedOrder
    /\ raised = NoError
    /\ CartInit
    /\ LimitIdle
    /\ RollupIdle
    /\ InvoiceIdle
    /\ MoveIdle
    /\ SweepIdle
    /\ resState \in {st \in [Resources -> ResourceStates] :
                        \A r \in Resources : r > 1 => st[r] \in {RES_OK, RES_TERMINATING}}
    /\ billing \in [enabled : BOOLEAN, owners : BOOLEAN,
                     billable : {b \in [Resources -> BOOLEAN] : \A r \in Resources : r > 1 => b[r]},
                     items : [InvoiceItemIds -> [resource : {Null, Some(1)}, price : {0, 5}, age : 0..3]]]
    /\ notified = {}
    /\ ccuCustomer = << >>
    /\ newResource = NoResource
    /\ quotas = {}
    /\ adder = [a \in Adders |-> IdleAdder]

NextStale == notify_about_stale_resource

SpecStale == InitStale /\ [][NextStale]_vars

\* ======================================================================
\* Fixed usage of a window (tasks.aggregate_fixed_usage)
\* ======================================================================

\* aggregate_fixed_usage(start, end, scope) called for the month m
AggregateFixedUsage ==
    \E m \in Months :
        LET start == m * DaysPerMonth
            end == start + DaysPerMonth - 1
        IN /\ lastCall' = [fn |-> "aggregate_fixed_usage", start |-> start, end |-> end,
                           result |-> aggregate_fixed_usage(start, end)]
           /\ raised' = NoError
           /\ UNCHANGED <<usages, component, offering, rollupVars, cartVars, orderVars, resState, tailVars>>

NextFixedUsage == AggregateFixedUsage

SpecFixedUsage == InitRollup /\ [][NextFixedUsage]_vars

\* ======================================================================
\* Local resource creation (utils.create_local_resource)
\* ======================================================================

\* the offering's components by type with their billing type; "disk" is
\* a key no component of the offering has
ComponentBillings == [{"cpu", "ram"} -> {FIXED, USAGE, LIMIT}]
CreateLimits ==
    { cpu \cup ram \cup disk :
        cpu \in {{}} \cup {{<<"cpu", v>>} : v \in {0, 4}},
        ram \in {{}} \cup {{<<"ram", v>>} : v \in {0, 4}},
        disk \in {{}} \cup {{<<"disk", v>>} : v \in {0, 4}} }

\* Offering.get_limit_components(): the types of the LIMIT components
get_limit_components(types) == {k \in DOMAIN types : types[k] = LIMIT}

\* init_quotas creating a quota for every requested key
init_quotas_every_key(limits, types) ==
    {[component |-> q[1], limit |-> q[2], usage |-> 0] : q \in limits}

\* Resource.init_quotas(): the ComponentQuota rows created
init_quotas(limits, types) ==
    IF limits # {}
    THEN LET components_map == get_limit_components(types)
         IN {[component |-> q[1], limit |-> q[2], usage |-> 0] :
                q \in {x \in limits : x[1] \in components_map}}
    ELSE {}

\* create_local_resource(order_item, scope)
create_local_resource ==
    /\ newResource.state = 0
    /\ \E limits \in CreateLimits, types \in ComponentBillings, plan \in PlanChoices :
        /\ newResource' = [state |-> RES_CREATING, limits |-> limits,
                           cost |-> CostEstimateMixin_init_cost(Null, plan, limits),
                           order_item_resource |-> TRUE]
        /\ quotas' = quotas \cup init_quotas(limits, types)
        /\ lastCall' = [fn |-> "create_local_resource", limits |-> limits, types |-> types]
    /\ raised' = NoError
    /\ UNCHANGED <<usages, component, offering, cartVars, orderVars, resState, rollupVars, invoiceVars,
                   moveVars, sweepVars, staleVars, ccuCustomer, adder>>

InitCreate ==
    /\ Untouched
    /\ raised = NoError
    /\ ExtInit

NextCreate == create_local_resource

SpecCreate == InitCreate /\ [][NextCreate]_vars

\* ======================================================================
\* Properties
\* ======================================================================

\* the item a process_order execution handles in its next iteration, and the
\* state of the OrderItem object it holds for it
CurrentItem(t) == IF task[t].pc = "idle" THEN OrderItems[1] ELSE OrderItems[task[t].pos]
CurrentLoaded(t) == IF task[t].pc = "idle" THEN Snapshot[CurrentItem(t)] ELSE task[t].snap[CurrentItem(t)]
Runnable(t) == \/ task[t].pc = "loop"
               \/ task[t].pc = "idle" /\ queue # << >> /\ OrderItems # << >>
IterationStep(t, outcome) == ProcessOrderWith(t, outcome) \/ ProcessOrderIterationWith(t, outcome)
Dispatches(t) == Runnable(t) /\ set_state_executing(CurrentLoaded(t)).ok
HasProcessor(i) == get_order_item_processor(LoadedItem(i, itemState[i])) # None

\* C1: whenever a processor raises inside utils.process_order_item, exactly
\* that order item becomes Erred with a non-empty error_message and a
\* traceback, and every sibling item and the parent order keep their state.
C1_DispatchErrorContainment ==
    [][\A t \in Tasks : \A outcome \in Outcomes :
         (/\ Dispatches(t)
          /\ HasProcessor(CurrentItem(t))
          /\ outcome.kind = "raise"
          /\ IterationStep(t, outcome))
         => (/\ itemState'[CurrentItem(t)] = ERRED
             /\ itemMsg'[CurrentItem(t)] # ""
             /\ itemTb'[CurrentItem(t)] # ""
             /\ \A j \in Items \ {CurrentItem(t)} : itemState'[j] = itemState[j]
             /\ order' = order)]_vars

\* C2: when no processor is registered for the item, utils.process_order_item
\* invokes no processor, marks the item Erred with the "processor is not
\* found" message, returns normally and puts no new message on the queue;
\* the loop does not come back to the item.
C2_MissingProcessorTerminal ==
    [][\A t \in Tasks : \A outcome \in Outcomes :
         (/\ Dispatches(t)
          /\ ~HasProcessor(CurrentItem(t))
          /\ IterationStep(t, outcome))
         => (/\ called' = 0
             /\ itemState'[CurrentItem(t)] = ERRED
             /\ itemMsg'[CurrentItem(t)] = ProcessorNotFoundMessage
             /\ itemTb'[CurrentItem(t)] = itemTb[CurrentItem(t)]
             /\ raised' = NoError
             /\ Len(queue') <= Len(queue)
             /\ \/ task'[t] = IdleTask
                \/ OrderItems[task'[t].pos] > CurrentItem(t))]_vars

C2_Witness ==
    \E i \in Items :
        /\ ~HasProcessor(i)
        /\ itemState[i] = ERRED
        /\ itemMsg[i] = ProcessorNotFoundMessage
        /\ order.state = ORDER_EXECUTING
        /\ queue = << >>
        /\ called = 0
        /\ raised = NoError

\* C3: in process_order a failed item (missing processor or raised
\* exception) neither changes the order nor ends the loop: the task goes on
\* with the next item of the queryset, and every item the loop reaches in a
\* dispatchable state is saved as Executing and handed to its processor.
C3_FailureDoesNotStopOrder ==
    /\ [][\A t \in Tasks : \A outcome \in Outcomes :
            (/\ Dispatches(t)
             /\ ~HasProcessor(CurrentItem(t)) \/ outcome.kind = "raise"
             /\ IterationStep(t, outcome))
            => (/\ order' = order
                /\ raised' = NoError
                /\ itemState'[CurrentItem(t)] = ERRED
                /\ IF CurrentItem(t) = OrderItems[Len(OrderItems)]
                   THEN task'[t] = IdleTask
                   ELSE /\ task'[t].pc = "loop"
                        /\ OrderItems[task'[t].pos - 1] = CurrentItem(t))]_vars
    /\ [][\A t \in Tasks : \A outcome \in Outcomes :
            (/\ Dispatches(t)
             /\ HasProcessor(CurrentItem(t))
             /\ outcome.kind = "return"
             /\ IterationStep(t, outcome))
            => (/\ itemState'[CurrentItem(t)] = EXECUTING
                /\ called' = CurrentItem(t)
                /\ order' = order)]_vars

C3_Witness ==
    \E i, j \in Items :
        /\ i < j
        /\ offType[i] # REMOTE_PLUGIN_NAME
        /\ offType[j] # REMOTE_PLUGIN_NAME
        /\ itemState[i] = ERRED
        /\ itemMsg[i] = ProcessorNotFoundMessage \/ itemTb[i] # ""
        /\ itemState[j] = DONE
        /\ order.state = ORDER_EXECUTING
        /\ queue = << >>
        /\ \A t \in Tasks : task[t] = IdleTask

\* C8: process_order never touches an item of the remote plugin (no state
\* change, no error fields, no processor call); its loop runs over exactly
\* the other items of the order, in order, and each of them that it holds in
\* a dispatchable state is saved as Executing and dispatched.
C8_RemoteCarveOut ==
    /\ [][\A t \in Tasks :
            (ProcessOrder(t) \/ ProcessOrderIteration(t))
            => \A i \in Items :
                 offType[i] = REMOTE_PLUGIN_NAME
                 => (/\ itemState'[i] = itemState[i]
                     /\ itemMsg'[i] = itemMsg[i]
                     /\ itemTb'[i] = itemTb[i]
                     /\ called' # i)]_vars
    /\ [][\A t \in Tasks : \A outcome \in Outcomes :
            (Dispatches(t) /\ IterationStep(t, outcome))
            => (/\ offType[CurrentItem(t)] # REMOTE_PLUGIN_NAME
                /\ itemState'[CurrentItem(t)] \in {EXECUTING, ERRED}
                /\ HasProcessor(CurrentItem(t)) => called' = CurrentItem(t)
                /\ \A j \in Items :
                     (/\ j > CurrentItem(t)
                      /\ task'[t].pc = "loop" => j < OrderItems[task'[t].pos])
                     => offType[j] = REMOTE_PLUGIN_NAME
                /\ \A j \in Items :
                     (j < CurrentItem(t) /\ task[t].pc = "idle")
                     => offType[j] = REMOTE_PLUGIN_NAME)]_vars

C8_Witness ==
    \E i, j \in Items :
        /\ offType[i] = REMOTE_PLUGIN_NAME
        /\ itemState[i] = PENDING
        /\ offType[j] # REMOTE_PLUGIN_NAME
        /\ itemState[j] = EXECUTING
        /\ called = j
        /\ order.state = ORDER_EXECUTING
        /\ queue = << >>
        /\ \A t \in Tasks : task[t] = IdleTask

\* the adjacency list of the OrderItem state machine as documented
DocumentedItemTransitions ==
    {<<PENDING, EXECUTING>>, <<ERRED, EXECUTING>>, <<EXECUTING, DONE>>,
     <<EXECUTING, ERRED>>, <<PENDING, TERMINATING>>, <<EXECUTING, TERMINATING>>,
     <<TERMINATING, TERMINATED>>}

\* what a transition call with these sources and this target must do
Accepts(sources, target, before, after) ==
    IF before \in sources
    THEN after = target /\ raised' = NoError
    ELSE after = before /\ raised' = TransitionNotAllowed

OrderTransitions ==
    {<<REQUESTED_FOR_APPROVAL, ORDER_EXECUTING>>, <<REQUESTED_FOR_APPROVAL, REJECTED>>,
     <<ORDER_EXECUTING, ORDER_DONE>>}
    \cup {<<s, ORDER_TERMINATED>> : s \in OrderStates}
    \cup {<<s, ORDER_ERRED>> : s \in OrderStates}

\* C6: approve (recording approver and approval time) and reject are
\* accepted only from RequestedForApproval, complete only from Executing,
\* terminate and fail from every state; a rejected attempt raises
\* TransitionNotAllowed and leaves state, approver and approval time alone.
C6_OrderTransitionTable ==
    /\ [][\A user \in Users : \A atomic \in BOOLEAN :
            approve_order(user, atomic)
            => IF order.state = REQUESTED_FOR_APPROVAL
               THEN /\ raised' = NoError
                    /\ (IF atomic THEN tx'.row ELSE order')
                         = [state |-> ORDER_EXECUTING, approved_by |-> user,
                            approved_at |-> TimezoneNow]
                    /\ atomic => tx'.open /\ order' = order
               ELSE /\ raised' = TransitionNotAllowed
                    /\ order' = order /\ tx' = tx /\ queue' = queue]_vars
    /\ [][TxCommit => order' = tx.row /\ order.state = REQUESTED_FOR_APPROVAL]_vars
    /\ [][/\ OrderReject
             => /\ Accepts({REQUESTED_FOR_APPROVAL}, REJECTED, order.state, order'.state)
          /\ OrderComplete
             => Accepts({ORDER_EXECUTING}, ORDER_DONE, order.state, order'.state)
          /\ OrderTerminate
             => Accepts(OrderStates, ORDER_TERMINATED, order.state, order'.state)
          /\ OrderFail
             => Accepts(OrderStates, ORDER_ERRED, order.state, order'.state)]_vars
    /\ [][order' # order
          => /\ <<order.state, order'.state>> \in OrderTransitions
             /\ \/ /\ order'.approved_by = order.approved_by
                   /\ order'.approved_at = order.approved_at
                \/ /\ order.state = REQUESTED_FOR_APPROVAL
                   /\ order'.state = ORDER_EXECUTING
                   /\ order'.approved_by \in Users
                   /\ order'.approved_at = TimezoneNow]_vars
    /\ [][raised' = TransitionNotAllowed => order' = order /\ tx' = tx]_vars

C6_Witness ==
    /\ order = [state |-> ORDER_DONE, approved_by |-> "staff", approved_at |-> TimezoneNow]
    /\ raised = TransitionNotAllowed
    /\ \A i \in Items : itemState[i] = PENDING

C9_ResourceTransitionTable ==
    /\ [][\A r \in Resources :
            /\ ResourceSetStateOk(r)
               => Accepts({RES_ERRED, RES_CREATING, RES_UPDATING}, RES_OK,
                          resState[r], resState'[r])
            /\ ResourceSetStateErred(r)
               => Accepts(ResourceStates, RES_ERRED, resState[r], resState'[r])
            /\ ResourceSetStateUpdating(r)
               => Accepts(ResourceStates, RES_UPDATING, resState[r], resState'[r])
            /\ ResourceSetStateTerminating(r)
               => Accepts(ResourceStates, RES_TERMINATING, resState[r], resState'[r])
            /\ ResourceSetStateTerminated(r)
               => Accepts(ResourceStates, RES_TERMINATED, resState[r], resState'[r])]_vars
    /\ [][raised' = TransitionNotAllowed => resState' = resState]_vars
    /\ [][\A r \in Resources :
            resState'[r] = RES_OK /\ resState[r] # RES_OK
            => resState[r] \in {RES_ERRED, RES_CREATING, RES_UPDATING}]_vars

C9_Witness ==
    /\ raised = TransitionNotAllowed
    /\ \E r \in Resources :
        /\ resState[r] = RES_TERMINATING
        /\ \A q \in Resources \ {r} : resState[q] = RES_CREATING

\* C10 (as stated): a Terminated resource keeps its state for ever.
C10_TerminatedFinal ==
    [][\A r \in Resources :
         resState[r] = RES_TERMINATED => resState'[r] = RES_TERMINATED]_vars

\* C10 (amended): no single lifecycle operation makes a Terminated resource
\* OK: set_state_ok is rejected from Terminated, and the resource leaves
\* Terminated only through set_state_erred, set_state_updating or
\* set_state_terminating (after which set_state_ok is accepted again).
C10_TerminatedNotDirectlyOk ==
    /\ [][\A r \in Resources :
            (resState[r] = RES_TERMINATED /\ resState'[r] # RES_TERMINATED)
            => resState'[r] \in {RES_ERRED, RES_UPDATING, RES_TERMINATING}]_vars
    /\ [][\A r \in Resources :
            (ResourceSetStateOk(r) /\ resState[r] = RES_TERMINATED)
            => resState' = resState /\ raised' = TransitionNotAllowed]_vars

C10_Witness ==
    /\ raised = TransitionNotAllowed
    /\ \E r \in Resources :
        /\ resState[r] = RES_TERMINATED
        /\ \A q \in Resources \ {r} : resState[q] = RES_CREATING

\* ----------------------------------------------------------------------
\* Cost estimate and cart properties
\* ----------------------------------------------------------------------

\* the stored cost of the first n items of the cart, a NULL cost counting 0
RECURSIVE StoredCost(_, _)
StoredCost(items, n) ==
    IF n = 0 THEN 0
    ELSE (IF items[n].cost = Null THEN 0 ELSE items[n].cost[1]) + StoredCost(items, n - 1)

\* C11: after Order.init_total_cost, order.total_cost is the sum of the
\* stored cost of every item of the order, an item without a stored cost
\* counting 0 and an empty order totalling 0.
C11_OrderCostAdditivity ==
    [][init_total_cost =>
        /\ total_cost' = Some(StoredCost(cart, Len(cart)))
        /\ (cart = << >> => total_cost' = Some(0))]_vars

\* an order of three items, one of them without a stored cost, totalled
C11_Witness ==
    /\ Len(cart) = 3
    /\ \E i \in 1..Len(cart) : cart[i].cost = Null
    /\ \E i \in 1..Len(cart) : cart[i].cost # Null /\ cart[i].cost[1] > 0
    /\ total_cost # Null
    /\ total_cost[1] = StoredCost(cart, 3)
    /\ total_cost[1] > 0

\* C12: every Terminate item added through Order.add_item costs 0 whatever
\* plan and limits it carries; a Create item costs the plan estimate plus
\* the one-time fee, an Update item the plan estimate plus the switch fee.
C12_TerminateItemsCostZero ==
    \A i \in 1..Len(cart) :
        LET it == cart[i]
        IN /\ it.type = TERMINATE => OrZero(it.cost) = 0
           /\ (it.type = CREATE /\ HasPlan(it.plan)) =>
                  it.cost = Some(get_estimate(it.plan, it.limits) + it.plan.init_price)
           /\ (it.type = UPDATE /\ HasPlan(it.plan)) =>
                  it.cost = Some(get_estimate(it.plan, it.limits) + it.plan.switch_price)

SameType(items) ==
    \A i, j \in 1..Len(items) : items[i].type = items[j].type

\* C13: after any sequence of Order.add_item calls all items of the order
\* have the same request type; an add_item whose type differs from the
\* items already in the order raises a validation error and persists no
\* item.
C13_SameTypeInvariant ==
    [][/\ SameType(cart')
       /\ \A type \in RequestTypes, plan \in PlanChoices, limits \in LimitsChoices, allowed \in BOOLEAN :
            (add_item(type, plan, limits, allowed) /\ \E i \in 1..Len(cart) : cart[i].type # type)
                => (raised' = ValidationError /\ cart' = cart)]_vars

\* an order that holds two items and has just refused one
C13_Witness ==
    /\ Len(cart) = 2
    /\ SameType(cart)
    /\ raised = ValidationError

\* ----------------------------------------------------------------------
\* Validation properties
\* ----------------------------------------------------------------------

\* usage of the rows recorded at any time within the calendar month of date
RECURSIVE UsageWithinMonth(_, _)
UsageWithinMonth(n, date) ==
    IF n = 0 THEN 0
    ELSE (IF usages[n].date \div DaysPerMonth = date \div DaysPerMonth THEN usages[n].usage ELSE 0)
         + UsageWithinMonth(n - 1, date)

\* C14: for a component with limit_period = MONTH and limit_amount = L,
\* validate_amount(resource, amount, date) raises a validation error if and
\* only if the usage of all rows recorded at any time within the calendar
\* month of date, plus amount, exceeds L; usage of other months is not
\* counted.
C14_MonthlyLimitEnforcement ==
    (lastCall.fn = "validate_amount" /\ component.limit_period = Some(MONTH)
        /\ component.limit_amount \notin {Null, Some(0)})
    => ((raised = ValidationError)
          <=> (UsageWithinMonth(MaxUsages, lastCall.date) + lastCall.amount
                 > component.limit_amount[1]))

\* C15: validate_limits(limits, offering) raises a validation error if and
\* only if the plugin does not support limit updates, or a key of limits is
\* not a LIMIT-billed component, or a requested value is above the
\* configured max_value or below the configured min_value, for every
\* configured bound, including 0.
C15_ValidateLimits ==
    lastCall.fn = "validate_limits"
    => ((raised = ValidationError)
          <=> \/ ~offering.can_update_limits
              \/ \E p \in lastCall.limits : ComponentBilling[p[1]] # LIMIT
              \/ \E p \in lastCall.limits :
                    \/ (offering.max_value # Null /\ p[2] > offering.max_value[1])
                    \/ (offering.min_value # Null /\ p[2] < offering.min_value[1]))

\* ----------------------------------------------------------------------
\* Rollup properties
\* ----------------------------------------------------------------------

\* the component ids calculate_usage_for_scope writes for the current month
RollupKeys ==
    DictKeys(aggregate_reported_usage(CurrentMonthStart, CurrentMonthEnd))
        \cup (DictKeys(aggregate_fixed_usage(CurrentMonthStart, CurrentMonthEnd)) \ {None})

\* the table holds one row for the key, with the aggregates of the data
OneFreshRow(table, c) ==
    /\ Cardinality(Matching(table, c, CurrentMonthStart)) = 1
    /\ \A i \in Matching(table, c, CurrentMonthStart) :
          /\ table[i].reported_usage
                = DictGetOrNull(aggregate_reported_usage(CurrentMonthStart, CurrentMonthEnd), c)
          /\ table[i].fixed_usage
                = DictGetOrNull(aggregate_fixed_usage(CurrentMonthStart, CurrentMonthEnd), c)

\* C16: running calculate_usage_for_scope(start, end, scope) two or more
\* times in sequence over unchanged data leaves exactly one
\* CategoryComponentUsage row per (scope, component, date = start), whose
\* reported_usage and fixed_usage are the same after every run: a run after
\* the first changes nothing.
C16_IdempotentRollup ==
    [][calculate_usage_for_scope =>
        /\ raised' = NoError
        /\ \A c \in RollupKeys : OneFreshRow(ccu', c)
        /\ (lastCall.fn = "calculate_usage_for_scope" => ccu' = ccu)]_vars

\* the rollup has run over usage of 20 for "cores" and a plan period for
\* "ram": the row left by an earlier run is overwritten, a second is added
C16_Witness ==
    /\ lastCall.fn = "calculate_usage_for_scope"
    /\ Len(ccu) = 2
    /\ ccu[1] = [component |-> "cores", date |-> CurrentMonthStart,
                 reported_usage |-> Some(20), fixed_usage |-> Null]
    /\ ccu[2].component = "ram"
    /\ ccu[2].fixed_usage = Some(2)

\* C17: when two executions of the rollup for the same scope and period
\* interleave, there is still at most one CategoryComponentUsage row per
\* (scope, component, date) and neither execution fails.
C17_ConcurrentRollupSafety ==
    /\ \A c \in CategoryComponents : Cardinality(Matching(ccu, c, CurrentMonthStart)) <= 1
    /\ raised # MultipleObjectsReturned

\* ----------------------------------------------------------------------
\* Invoice item properties
\* ----------------------------------------------------------------------

\* the item is linked to a resource and to a plan component whose offering
\* component is usage-billed, and a usage row of the billing month exists
Linked ==
    /\ invoiceItem.resource # Null
    /\ invoiceItem.plan_component_id \in {Some("one"), Some("two")}
    /\ PlanComponentTable[invoiceItem.plan_component_id[1]] = USAGE
    /\ \E u \in UsageRows : usages[u].resource = TheResource /\ usages[u].billing_period = InvoiceMonth

TargetNotPending ==
    \E i \in InvoiceItemIds :
        /\ placement.items[i].project = placement.resource
        /\ placement.invoices[placement.items[i].customer][placement.items[i].month] = INVOICE_PENDING
        /\ placement.invoices[NewProject][placement.items[i].month] = INVOICE_PAID

\* C19: whenever move_resource fails, because an order of the resource
\* holds an item of another resource or because the target invoice is not
\* pending (both MoveResourceException, where a blocked target customer
\* gives a validation error), the stored project of the resource, of its
\* scope, of every order and of every invoice item and every invoice
\* item's invoice are as before the call.
C19_AtomicResourceMove ==
    [][MoveResource =>
        /\ (raised' # NoError => placement' = placement)
        /\ (placement.blocked => raised' = ValidationError)
        /\ ((~placement.blocked /\ placement.resource = OldProject
                /\ ((\E o \in OrderIds : placement.shared[o]) \/ TargetNotPending))
              => raised' = MoveResourceException)]_vars

\* the move failed on the second order after the first, which is not
\* shared, had been rewritten: everything is still in the old project
C19_Witness ==
    /\ lastCall.fn = "move_resource"
    /\ raised = MoveResourceException
    /\ ~placement.shared[1]
    /\ placement.shared[2]
    /\ placement.scope = Some(OldProject)
    /\ placement.resource = OldProject
    /\ placement.orders[1] = OldProject

\* ----------------------------------------------------------------------
\* Expiry sweep properties
\* ----------------------------------------------------------------------

\* C20: the sweep requests termination for exactly the resources whose
\* end_date is set and on or before today and whose state is neither
\* Terminated nor Terminating; a resource already Terminated or Terminating
\* is never submitted again.
C20_ExpirySweepSelection ==
    (lastCall.fn = "terminate_resource_if_its_end_date_has_been_reached" /\ robot)
    => /\ submitted = {r \in Resources :
                          /\ endDate[r] # Null
                          /\ endDate[r][1] <= Today
                          /\ resState[r] \notin {RES_TERMINATED, RES_TERMINATING}}
       /\ \A r \in submitted : resState[r] \notin {RES_TERMINATED, RES_TERMINATING}

\* C21: without a system robot user schedule_resources_termination submits
\* no termination request, changes no resource or order item and returns
\* without raising; with the robot a failed request for one resource is
\* only logged and the remaining resources are still submitted.
C21_MissingRobotNonFatal ==
    [][terminate_resource_if_its_end_date_has_been_reached =>
        /\ raised' = NoError
        /\ resState' = resState
        /\ itemState' = itemState
        /\ (~robot => submitted' = {})
        /\ (robot => /\ submitted' = expired_resources
                      /\ lastCall'.logged \subseteq submitted')]_vars

\* a sweep without the robot over resources whose end date has been
\* reached: nothing submitted, the missing account logged
C21_Witness ==
    /\ lastCall.fn = "terminate_resource_if_its_end_date_has_been_reached"
    /\ ~robot
    /\ \E r \in Resources : endDate[r] # Null /\ endDate[r][1] <= Today /\ resState[r] = RES_OK
    /\ submitted = {}
    /\ lastCall.logged = {0}
    /\ raised = NoError

\* ----------------------------------------------------------------------
\* Stale resource properties
\* ----------------------------------------------------------------------

\* C22: notify_about_stale_resource reports a resource to the owners of its
\* organization if and only if the feature is enabled, the resource is
\* none of Terminated, Terminating, Creating, its offering is billable and
\* no invoice item of the resource in the invoices of the current and the
\* two preceding months has a nonzero price; it changes no resource.
C22_StaleResourceDetection ==
    (lastCall.fn = "notify_about_stale_resource" /\ billing.owners)
    => \A r \in Resources :
          r \in notified
            <=> /\ billing.enabled
                /\ resState[r] \notin {RES_TERMINATED, RES_TERMINATING, RES_CREATING}
                /\ billing.billable[r]
                /\ ~\E i \in InvoiceItemIds :
                      /\ billing.items[i].age <= 2
                      /\ billing.items[i].resource = Some(r)
                      /\ billing.items[i].price # 0

\* ----------------------------------------------------------------------
\* Fixed usage properties
\* ----------------------------------------------------------------------

\* the time frame of the plan period r intersects [start, end]
Overlaps(r, start, end) ==
    /\ periods[r].start <= end
    /\ (periods[r].end = Null \/ periods[r].end[1] >= start)

RowComponents(table) ==
    {table[i].component : i \in {j \in 1..Len(table) : table[j].date = CurrentMonthStart}}

\* what one scope's table gains in a run
KeySetWritten(before, after) ==
    /\ RowComponents(after) = RowComponents(before) \cup RollupKeys
    /\ Len(after) = Len(before) + Cardinality(RollupKeys \ RowComponents(before))
    /\ None \notin RowComponents(after)
    /\ \A c \in RollupKeys : Cardinality(Matching(after, c, CurrentMonthStart)) = 1

\* C24: the rollup writes a row for exactly the category components in
\* the union of the reported and the fixed keys and never for None: with
\* no parent on any component the scheduled rollup creates no row, and
\* with a parent it creates one row for the customer and one for the
\* project.
C24_RollupKeySet ==
    [][calculate_usage_for_current_month =>
        /\ raised' = NoError
        /\ KeySetWritten(ccuCustomer, ccuCustomer')
        /\ KeySetWritten(ccu, ccu')
        /\ ((usageParent = None /\ \A r \in PeriodRows : periods[r].parent = None)
                => (ccuCustomer' = ccuCustomer /\ ccu' = ccu))]_vars

\* a run with a parent on the usages and a plan period without one
C24_Witness ==
    /\ lastCall.fn = "calculate_usage_for_current_month"
    /\ usageParent = "cores"
    /\ \E u \in UsageRows : usages[u].date >= CurrentMonthStart
    /\ \E r \in PeriodRows : periods[r].parent = None /\ periods[r].end = Null
    /\ Len(ccuCustomer) = 1
    /\ ccuCustomer[1].component = "cores"
    /\ Len(ccu) = 1
    /\ ccu[1].component = "cores"

\* ----------------------------------------------------------------------
\* Quota initialisation
\* ----------------------------------------------------------------------

\* C25: after create_local_resource the new resource is Creating, is
\* attached to the order item, and has exactly one quota for each
\* requested key that is a LIMIT component of the offering, with the
\* requested limit and usage 0, and no quota for any other key; with
\* empty limits there is no quota.
C25_QuotaInitialisation ==
    lastCall.fn = "create_local_resource"
    => /\ newResource.state = RES_CREATING
       /\ newResource.order_item_resource
       /\ newResource.limits = lastCall.limits
       /\ \A key \in {"cpu", "ram", "disk"} :
            LET rows == {q \in quotas : q.component = key}
                limited == /\ DictHas(lastCall.limits, key)
                           /\ key \in DOMAIN lastCall.types
                           /\ lastCall.types[key] = LIMIT
            IN IF limited
               THEN rows = {[component |-> key, limit |-> DictGet(lastCall.limits, key, -1), usage |-> 0]}
               ELSE rows = {}
       /\ (lastCall.limits = {} => quotas = {})

\* limits on a LIMIT component, on a USAGE component and on an unknown key
C25_Witness ==
    /\ lastCall.fn = "create_local_resource"
    /\ lastCall.limits = {<<"cpu", 4>>, <<"ram", 4>>, <<"disk", 4>>}
    /\ lastCall.types = [cpu |-> LIMIT, ram |-> USAGE]
    /\ quotas = {[component |-> "cpu", limit |-> 4, usage |-> 0]}
    /\ newResource.state = RES_CREATING

\* ----------------------------------------------------------------------
\* Delivery properties
\* ----------------------------------------------------------------------

\* the processor of item i has been invoked: it returned and left the item
\* Executing, or it raised and left its traceback
Invoked(i) == itemState[i] = EXECUTING \/ itemTb[i] # ""

\* C26: when process_order is delivered more than once for the same
\* approved order, the processor of each order item is invoked at most
\* once, whatever state the item had reached when the duplicate ran.
C26_AtMostOnceDispatch ==
    [][\A i \in Items : called' = i => ~Invoked(i)]_vars

\* C27: once the approval of an order has committed and process_order
\* runs for it, every item whose offering is not remote eventually leaves
\* Pending, whatever state the other items of the order are in.
C27_DispatchLiveness ==
    \A i \in Items :
        (order.state = ORDER_EXECUTING /\ queue # << >> /\ offType[i] # REMOTE_PLUGIN_NAME)
            ~> (itemState[i] # PENDING)

\* ----------------------------------------------------------------------
\* Concurrent add_item
\* ----------------------------------------------------------------------

\* C28: when two Order.add_item calls with different request types
\* interleave, each running clean() before the other saves, at most one
\* persists an item, so the order never holds items of two request types.
C28_ConcurrentSameType ==
    \A i, j \in 1..Len(cart) : cart[i].type = cart[j].type

\* ----------------------------------------------------------------------
\* Rollup freshness and the limit of zero
\* ----------------------------------------------------------------------

\* C29: immediately after calculate_usage_for_scope completes, every row
\* stored for the scope and date = start has reported_usage and
\* fixed_usage equal to the current aggregates of its component, rows of
\* components whose usages and plan periods were removed included.
C29_RollupFreshness ==
    (lastCall.fn = "calculate_usage_for_scope" /\ raised = NoError)
    => \A i \in 1..Len(ccu) :
          ccu[i].date = CurrentMonthStart
          => /\ OrZero(ccu[i].reported_usage)
                  = DictGet(aggregate_reported_usage(CurrentMonthStart, CurrentMonthEnd),
                            ccu[i].component, 0)
             /\ OrZero(ccu[i].fixed_usage)
                  = DictGet(aggregate_fixed_usage(CurrentMonthStart, CurrentMonthEnd),
                            ccu[i].component, 0)

\* C30: for a component with a limit_period and limit_amount = 0,
\* validate_amount raises a validation error for every amount above 0; it
\* is a no-op only without a limit_period or without a limit_amount.
C30_ZeroLimitEnforced ==
    (/\ lastCall.fn = "validate_amount"
     /\ component.limit_period # Null
     /\ component.limit_amount = Some(0)
     /\ lastCall.amount > 0)
    => raised = ValidationError

====
